---- MODULE Spec2Model ----
(***************************************************************************)
(* Draft lifecycle action layer of react-invenio-deposit                   *)
(* (src/lib/state/actions/deposit.js) and its feedback component           *)
(* (src/lib/components/FormFeedback.js).                                   *)
(*                                                                         *)
(* Every thunk invocation is a cooperative task that suspends only at the  *)
(* backend calls it awaits.  One action of the model is one run of a task  *)
(* between two suspension points: the synchronous prefix of a thunk, or    *)
(* the continuation that runs when an awaited backend call settles.        *)
(***************************************************************************)
EXTENDS Integers, Sequences, FiniteSets, TLC

\* Number of thunk invocations that can be in flight at the same time.
MaxInv == 2

Inv == 1..MaxInv

\* ------------------------------------------------------------------ values

\* Rejections of the backend: objects with an `errors` field.
Errors == {[errors |-> "E1"], [errors |-> "E2"]}

\* Communities that can be selected; `Null` is the absent selection.
Null == [null |-> TRUE]
Communities == {[uuid |-> "c1"], [uuid |-> "c2"]}

NoId == "no-id"
DraftId == "d1"
CreatedId == "n1"
\* Draft objects handed to the thunks by the form.
Drafts == {[id |-> NoId], [id |-> DraftId]}

PidTypes == {"doi"}

\* The JavaScript value undefined (no response yet, no payload, nothing thrown).
Undefined == [none |-> TRUE]

\* `errors` member of a save response: undefined, {} or a non-empty document.
ResponseErrors ==
  { [kind |-> "undefined", keys |-> {}],
    [kind |-> "object", keys |-> {}],
    [kind |-> "object", keys |-> {"metadata"}] }

\* lodash/isEmpty on the `errors` member of a response
IsEmpty(errors) == errors.kind = "undefined" \/ errors.keys = {}

\* JavaScript truthiness of `communityState.selected`
Truthy(selected) == selected # Null

\* ------------------------------------------------------------ the backend

Links(id, from) == [self_html |-> <<"/uploads", id>>, from |-> from]

\* draftsService.save(draft): a create when the draft has no id
SaveData(draft) ==
  LET id == IF draft.id = NoId THEN CreatedId ELSE draft.id
  IN  [id |-> id, links |-> Links(id, "save")]

SaveResponses(draft) ==
  { [data |-> SaveData(draft), errors |-> e] : e \in ResponseErrors }

\* draftsService.read(links)
ReadResponse(links) ==
  [data |-> [id |-> links.self_html[2],
             links |-> Links(links.self_html[2], "read")],
   errors |-> [kind |-> "undefined", keys |-> {}]]

\* draftsService.publish(links)
PublishResponse(links) ==
  [data |-> [id |-> links.self_html[2],
             links |-> [self_html |-> <<"/records", links.self_html[2]>>,
                        from |-> "publish"]]]

\* draftsService.submitReview(links)
SubmitReviewResponse(links) == [data |-> [id |-> "req1"]]

\* draftsService.reservePID / discardPID (links, pidType)
PidResponse(name, links, pidType) ==
  [data |-> [id |-> links.self_html[2],
             links |-> Links(links.self_html[2], name)]]

\* ------------------------------------------------------------- the store

NoAction == "null"

CommunityStates ==
  [selected : Communities \cup {Null},
   recordHasInclusionRequest : BOOLEAN,
   isReviewForSelectedCommunity : BOOLEAN]

Ev(type, payload) == [type |-> type, payload |-> payload]

\* The deposit reducer: the slice keeps the type of the last lifecycle
\* action as actionState, the data of an action that carries data as record,
\* and the selected community.
Reduce(st, action) ==
  IF action.type = "SET_COMMUNITY"
    THEN [st EXCEPT !.community =
            [@ EXCEPT !.selected = action.payload.community]]
    ELSE [st EXCEPT
            !.actionState = action.type,
            !.record = IF "data" \in DOMAIN action.payload
                         THEN action.payload.data ELSE @]

RECURSIVE DispatchAll(_, _)
DispatchAll(st, actions) ==
  IF actions = <<>> THEN st
  ELSE DispatchAll(Reduce(st, Head(actions)), Tail(actions))

VARIABLES
  store,    \* getState().deposit
  proc,     \* per invocation: the thunk, its arguments, where it is suspended
  events,   \* per invocation: the actions it dispatched, in order
  calls,    \* per invocation: the backend calls it issued, in order
  navs,     \* per invocation: its effects on window.history / window.location
  replies,  \* per invocation: how its backend calls settled, in order
  feedback  \* FormFeedback: the method called, its argument, what it returned

vars == <<store, proc, events, calls, navs, replies, feedback>>

\* No method of the FormFeedback component has been called.
NoFeedback == [fn |-> "none", arg |-> Undefined, returned |-> FALSE,
               result |-> Undefined]

IdleProc ==
  [op |-> "none", pc |-> "idle", draft |-> [id |-> NoId], arg |-> "none",
   unused |-> [id |-> NoId], failType |-> "none", depositState |-> Undefined, response |-> Undefined,
   result |-> "none", thrown |-> Undefined]

Init ==
  /\ store \in [actionState : {NoAction},
                record : {[id |-> NoId, links |-> Undefined],
                          [id |-> DraftId, links |-> Links(DraftId, "page")]},
                community : CommunityStates]
  /\ proc = [i \in Inv |-> IdleProc]
  /\ events = [i \in Inv |-> <<>>]
  /\ calls = [i \in Inv |-> <<>>]
  /\ navs = [i \in Inv |-> <<>>]
  /\ replies = [i \in Inv |-> <<>>]
  /\ feedback = NoFeedback

\* ------------------------------------------------- effects of one task run

\* What one run of a task does: the actions it dispatches, the backend call
\* it issues, its browser effects, where it suspends or how it settles.
Eff(ev, call, nav, pc, result, thrown, response) ==
  [ev |-> ev, call |-> call, nav |-> nav, pc |-> pc, result |-> result,
   thrown |-> thrown, response |-> response]

\* A backend call: the method of draftsService and its arguments.
Call(name, args) == [name |-> name, args |-> args]

\* The promise of the thunk rejects with `value`.
Throw(ev, value, response) ==
  Eff(ev, <<>>, <<>>, "done", "rejected", value, response)

\* Effects of the callee happen before those of the continuation.
Prepend(ev, nav, eff) == [eff EXCEPT !.ev = ev \o @, !.nav = nav \o @]

\* The backend settles the pending call `name` of an invocation.
Resolved(name, response) == [call |-> name, ok |-> TRUE, value |-> response]
Rejected(name, error) == [call |-> name, ok |-> FALSE, value |-> error]

\* The continuation of invocation i runs on `reply` and has effect `eff`.
Apply(i, reply, eff) ==
  /\ replies' = [replies EXCEPT ![i] = Append(@, reply)]
  /\ UNCHANGED feedback
  /\ proc' = [proc EXCEPT ![i] =
       [@ EXCEPT !.pc = eff.pc, !.result = eff.result,
                 !.thrown = eff.thrown, !.response = eff.response]]
  /\ events' = [events EXCEPT ![i] = @ \o eff.ev]
  /\ calls' = [calls EXCEPT ![i] = @ \o eff.call]
  /\ navs' = [navs EXCEPT ![i] = @ \o eff.nav]
  /\ store' = DispatchAll(store, eff.ev)

StartType(op) ==
  CASE op = "save" -> "DRAFT_SAVE_STARTED"
    [] op = "publish" -> "DRAFT_PUBLISH_STARTED"
    [] op = "submitReview" -> "DRAFT_SUBMIT_REVIEW_STARTED"
    [] op = "preview" -> "DRAFT_PREVIEW_STARTED"
    [] op = "delete" -> "DRAFT_DELETE_STARTED"
    [] op = "reservePID" -> "RESERVE_PID_STARTED"
    [] op = "discardPID" -> "DISCARD_PID_STARTED"

\* Variant: every failure inside _saveDraft is reported as a failed save.
FailType_save(op) == "DRAFT_SAVE_FAILED"

FailType(op) ==
  CASE op = "save" -> "DRAFT_SAVE_FAILED"
    [] op = "publish" -> "DRAFT_PUBLISH_FAILED"
    [] op = "submitReview" -> "DRAFT_SUBMIT_REVIEW_FAILED"
    [] op = "preview" -> "DRAFT_PREVIEW_FAILED"
    [] op = "delete" -> "DRAFT_DELETE_FAILED"
    [] op = "reservePID" -> "RESERVE_PID_FAILED"
    [] op = "discardPID" -> "DISCARD_PID_FAILED"

\* The catch blocks: dispatch the FAILED action with the rejection's errors.
FailedEvent(failType, error) == Ev(failType, [errors |-> error.errors])

\* ------------------------------------------------ saveDraftWithUrlUpdate

changeURLAfterCreation(draftURL) ==
  <<[kind |-> "history.replaceState", url |-> draftURL]>>

\* Variant: the address is replaced only for a response without errors.
saveDraftWithUrlUpdate_unlessErrors(draft, response) ==
  IF draft.id = NoId /\ IsEmpty(response.errors)
    THEN changeURLAfterCreation(response.data.links.self_html)
    ELSE <<>>

\* The part of saveDraftWithUrlUpdate that runs once draftsService.save has
\* resolved with `response`: its effect on the browser address.
saveDraftWithUrlUpdate(draft, response) ==
  LET hasAlreadyId == draft.id # NoId
  IN  IF ~hasAlreadyId
        THEN changeURLAfterCreation(response.data.links.self_html)
        ELSE <<>>

\* ------------------------------- continuations of the callers of _saveDraft

\* Variant: the success action carries the draft that was passed in.
save_continue_draft(p, response) ==
  Eff(<<Ev("DRAFT_SAVE_SUCCEEDED", [data |-> p.draft])>>, <<>>, <<>>,
      "done", "resolved", Undefined, response)

save_continue(p, response) ==
  Eff(<<Ev("DRAFT_SAVE_SUCCEEDED", [data |-> response.data])>>, <<>>, <<>>,
      "done", "resolved", Undefined, response)

\* Variant: publish on the links of the save response, also after a re-fetch.
publish_continue_savedLinks(p, response) ==
  LET draftWithLinks == IF p.response = Undefined THEN response.data
                                                  ELSE p.response.data
  IN  Eff(<<>>, <<Call("publish", <<draftWithLinks.links>>)>>, <<>>,
          "awaitPublish", "pending", Undefined, response)

publish_continue(p, response) ==
  LET draftWithLinks == response.data
  IN  Eff(<<>>, <<Call("publish", <<draftWithLinks.links>>)>>, <<>>,
          "awaitPublish", "pending", Undefined, response)

submitReview_continue(p, response) ==
  LET draftWithLinks == response.data
  IN  Eff(<<>>, <<Call("submitReview", <<draftWithLinks.links>>)>>, <<>>,
          "awaitSubmitReview", "pending", Undefined, response)

\* Variant: the preview address is built from the id of the saved draft.
preview_continue_savedId(p, response) ==
  Eff(<<>>, <<>>,
      <<[kind |-> "location.assign",
         url |-> <<"/records", response.data.id, "?preview=1">>]>>,
      "done", "resolved", Undefined, response)

preview_continue(p, response) ==
  Eff(<<>>, <<>>,
      <<[kind |-> "location.assign",
         url |-> <<"/records", p.draft.id, "?preview=1">>]>>,
      "done", "resolved", Undefined, response)

\* What the thunk does once `await _saveDraft(...)` has returned `response`.
Continue(p, response) ==
  CASE p.op = "save" -> save_continue(p, response)
    [] p.op = "publish" -> publish_continue(p, response)
    [] p.op = "submitReview" -> submitReview_continue(p, response)
    [] p.op = "preview" -> preview_continue(p, response)

\* ------------------------------------------------------------- _saveDraft

shouldDeleteReview(communityState) ==
  communityState.recordHasInclusionRequest /\ ~Truthy(communityState.selected)

\* Variant: the review is updated whenever a community is selected.
shouldUpdateReview_anySelection(communityState) ==
  Truthy(communityState.selected)

shouldUpdateReview(communityState) ==
  Truthy(communityState.selected)
    /\ ~communityState.isReviewForSelectedCommunity

\* The review call of _saveDraft, issued on the links of the saved draft.
ReviewCall(communityState, draftWithLinks) ==
  IF shouldDeleteReview(communityState)
    THEN Call("deleteReview", <<draftWithLinks.links>>)
    ELSE Call("createOrUpdateReview",
              <<draftWithLinks.links, communityState.selected.uuid>>)

\* Variant: the errors are looked up in response.data, which has none.
draftHasValidationErrors_inData(response) ==
  ~IsEmpty([kind |-> "undefined", keys |-> {}])

draftHasValidationErrors(response) == ~IsEmpty(response.errors)

\* Variant: the validation errors are dispatched but not thrown.
saveDraft_resolved_noThrow(p, response) ==
  LET communityState == p.depositState.community
      ev == IF draftHasValidationErrors(response)
              THEN <<Ev("DRAFT_HAS_VALIDATION_ERRORS",
                        [data |-> response.data, errors |-> response.errors])>>
              ELSE <<>>
  IN  IF shouldUpdateReview(communityState)
           \/ shouldDeleteReview(communityState)
        THEN Eff(ev, <<ReviewCall(communityState, response.data)>>,
                 <<>>, "awaitReview", "pending", Undefined, response)
        ELSE Prepend(ev, <<>>, Continue(p, response))

\* Variant: the community state is read from the store when the save call
\* has resolved.
saveDraft_resolved_currentState(p, response) ==
  IF draftHasValidationErrors(response)
    THEN Throw(<<Ev("DRAFT_HAS_VALIDATION_ERRORS",
                    [data |-> response.data, errors |-> response.errors])>>,
               response, response)
    ELSE LET communityState == store.community
         IN  IF shouldUpdateReview(communityState)
                  \/ shouldDeleteReview(communityState)
               THEN Eff(<<>>, <<ReviewCall(communityState, response.data)>>,
                        <<>>, "awaitReview", "pending", Undefined, response)
               ELSE Continue(p, response)

\* _saveDraft from the moment its save call has resolved with `response`.
saveDraft_resolved(p, response) ==
  IF draftHasValidationErrors(response)
    THEN Throw(<<Ev("DRAFT_HAS_VALIDATION_ERRORS",
                    [data |-> response.data, errors |-> response.errors])>>,
               response, response)
    ELSE LET communityState == p.depositState.community
         IN  IF shouldUpdateReview(communityState)
                  \/ shouldDeleteReview(communityState)
               THEN Eff(<<>>, <<ReviewCall(communityState, response.data)>>,
                        <<>>, "awaitReview", "pending", Undefined, response)
               ELSE Continue(p, response)

\* Variant: the FAILED action reads a member the rejection does not have.
saveDraft_rejected_noErrors(p, error) ==
  Throw(<<Ev(p.failType, [errors |-> "undefined"])>>, error, p.response)

\* Variant: the error handler of the calling thunk also encloses _saveDraft
\* and reports the rejection again.
saveDraft_rejected_reportedTwice(p, error) ==
  Throw(<<FailedEvent(p.failType, error), FailedEvent(p.failType, error)>>,
        error, p.response)

\* _saveDraft from the moment its save call has rejected with `error`.
saveDraft_rejected(p, error) ==
  Throw(<<FailedEvent(p.failType, error)>>, error, p.response)

\* Variant: no re-fetch after the review call.
saveDraft_reviewed_noRead(p) == Continue(p, p.response)

\* _saveDraft once the review call has resolved: re-fetch the draft.
saveDraft_reviewed(p) ==
  LET draftWithLinks == p.response.data
  IN  Eff(<<>>, <<Call("read", <<draftWithLinks.links>>)>>, <<>>,
          "awaitRead", "pending", Undefined, p.response)

\* Variant: the caller goes on with the response of the save call.
saveDraft_fetched_saveResponse(p, response) ==
  Prepend(<<Ev("DRAFT_FETCHED", [data |-> response.data])>>, <<>>,
          Continue(p, p.response))

\* _saveDraft once the read has resolved with `response`.
saveDraft_fetched(p, response) ==
  Prepend(<<Ev("DRAFT_FETCHED", [data |-> response.data])>>, <<>>,
          Continue(p, response))

\* A rejection that no try block of the thunk encloses.
Uncaught(p, error) == Throw(<<>>, error, p.response)

\* ----------------------------------------------------------- the thunks

\* A thunk can be invoked in a slot whose previous invocation has settled;
\* the logs of the slot then start afresh.
CanStart(i) == proc[i].pc \in {"idle", "done"}

\* save, publish, submitReview and preview up to their first suspension:
\* dispatch START, read the deposit state, enter _saveDraft, issue the save.
BeginWithSaveDraft(i, op, draft) ==
  /\ LET started == Reduce(store, Ev(StartType(op), Undefined))
     IN  /\ store' = started
         /\ proc' = [proc EXCEPT ![i] =
              [IdleProc EXCEPT !.op = op, !.pc = "awaitSave", !.draft = draft,
                               !.failType = FailType(op),
                               !.depositState = [community |-> started.community],
                               !.result = "pending"]]
  /\ events' = [events EXCEPT ![i] = <<Ev(StartType(op), Undefined)>>]
  /\ calls' = [calls EXCEPT ![i] = <<Call("save", <<draft>>)>>]
  /\ navs' = [navs EXCEPT ![i] = <<>>]
  /\ replies' = [replies EXCEPT ![i] = <<>>]
  /\ UNCHANGED feedback

save(i, draft) ==
  /\ CanStart(i)
  /\ BeginWithSaveDraft(i, "save", draft)

publish(i, draft) ==
  /\ CanStart(i)
  /\ BeginWithSaveDraft(i, "publish", draft)

submitReview(i, draft) ==
  /\ CanStart(i)
  /\ BeginWithSaveDraft(i, "submitReview", draft)

preview(i, draft) ==
  /\ CanStart(i)
  /\ BeginWithSaveDraft(i, "preview", draft)

SaveResolved(i) ==
  /\ proc[i].pc = "awaitSave"
  /\ \E response \in SaveResponses(proc[i].draft) :
       Apply(i, Resolved("save", response),
             Prepend(<<>>, saveDraftWithUrlUpdate(proc[i].draft, response),
                     saveDraft_resolved(proc[i], response)))

SaveRejected(i) ==
  /\ proc[i].pc = "awaitSave"
  /\ \E error \in Errors :
       Apply(i, Rejected("save", error), saveDraft_rejected(proc[i], error))

ReviewResolved(i) ==
  /\ proc[i].pc = "awaitReview"
  /\ Apply(i, Resolved(calls[i][Len(calls[i])].name, Undefined),
           saveDraft_reviewed(proc[i]))

ReviewRejected(i) ==
  /\ proc[i].pc = "awaitReview"
  /\ \E error \in Errors :
       Apply(i, Rejected(calls[i][Len(calls[i])].name, error),
             Uncaught(proc[i], error))

ReadResolved(i) ==
  /\ proc[i].pc = "awaitRead"
  /\ LET response == ReadResponse(proc[i].response.data.links)
     IN  Apply(i, Resolved("read", response),
               saveDraft_fetched(proc[i], response))

ReadRejected(i) ==
  /\ proc[i].pc = "awaitRead"
  /\ \E error \in Errors :
       Apply(i, Rejected("read", error), Uncaught(proc[i], error))

\* publish once the backend publish has resolved: redirect to the record.
publish_resolved(p, response) ==
  LET recordURL == response.data.links.self_html
  IN  Eff(<<>>, <<>>, <<[kind |-> "location.replace", url |-> recordURL]>>,
          "done", "resolved", Undefined, response)

publish_rejected(p, error) ==
  Throw(<<FailedEvent("DRAFT_PUBLISH_FAILED", error)>>, error, p.response)

PublishResolved(i) ==
  /\ proc[i].pc = "awaitPublish"
  /\ LET response == PublishResponse(proc[i].response.data.links)
     IN  Apply(i, Resolved("publish", response),
               publish_resolved(proc[i], response))

PublishRejected(i) ==
  /\ proc[i].pc = "awaitPublish"
  /\ \E error \in Errors :
       Apply(i, Rejected("publish", error), publish_rejected(proc[i], error))

submitReview_resolved(p, response) ==
  LET requestURL == <<"/me/requests", response.data.id>>
  IN  Eff(<<>>, <<>>, <<[kind |-> "location.replace", url |-> requestURL]>>,
          "done", "resolved", Undefined, response)

submitReview_rejected(p, error) ==
  Throw(<<FailedEvent("DRAFT_SUBMIT_REVIEW_FAILED", error)>>, error, p.response)

SubmitReviewResolved(i) ==
  /\ proc[i].pc = "awaitSubmitReview"
  /\ LET response == SubmitReviewResponse(proc[i].response.data.links)
     IN  Apply(i, Resolved("submitReview", response),
               submitReview_resolved(proc[i], response))

SubmitReviewRejected(i) ==
  /\ proc[i].pc = "awaitSubmitReview"
  /\ \E error \in Errors :
       Apply(i, Rejected("submitReview", error),
             submitReview_rejected(proc[i], error))

\* delete_ up to its suspension: dispatch START, take the record of the
\* store, issue the backend delete on its links. The first parameter of the
\* thunk is never read.
delete_(i, unused, isDiscardingVersion) ==
  /\ CanStart(i)
  /\ LET started == Reduce(store, Ev("DRAFT_DELETE_STARTED", Undefined))
         draft == started.record
     IN  /\ store' = started
         /\ proc' = [proc EXCEPT ![i] =
              [IdleProc EXCEPT !.op = "delete", !.pc = "awaitDelete",
                               !.draft = draft, !.arg = isDiscardingVersion,
                               !.unused = unused,
                               !.failType = "DRAFT_DELETE_FAILED",
                               !.result = "pending"]]
         /\ calls' = [calls EXCEPT ![i] = <<Call("delete", <<draft.links>>)>>]
  /\ events' = [events EXCEPT ![i] =
                  <<Ev("DRAFT_DELETE_STARTED", Undefined)>>]
  /\ navs' = [navs EXCEPT ![i] = <<>>]
  /\ replies' = [replies EXCEPT ![i] = <<>>]
  /\ UNCHANGED feedback

\* Variant: the redirect is built from the thunk's first argument.
delete_resolved_firstArgument(p) ==
  LET redirectURL == IF p.arg = "discarding"
                       THEN <<"/records", p.unused.id>>
                       ELSE <<"/me/uploads">>
  IN  Eff(<<>>, <<>>, <<[kind |-> "location.replace", url |-> redirectURL]>>,
          "done", "resolved", Undefined, p.response)

delete_resolved(p) ==
  LET redirectURL == IF p.arg = "discarding"
                       THEN <<"/records", p.draft.id>>
                       ELSE <<"/me/uploads">>
  IN  Eff(<<>>, <<>>, <<[kind |-> "location.replace", url |-> redirectURL]>>,
          "done", "resolved", Undefined, p.response)

delete_rejected(p, error) ==
  Throw(<<FailedEvent("DRAFT_DELETE_FAILED", error)>>, error, p.response)

DeleteResolved(i) ==
  /\ proc[i].pc = "awaitDelete"
  /\ Apply(i, Resolved("delete", Undefined), delete_resolved(proc[i]))

DeleteRejected(i) ==
  /\ proc[i].pc = "awaitDelete"
  /\ \E error \in Errors :
       Apply(i, Rejected("delete", error), delete_rejected(proc[i], error))

\* reservePID and discardPID up to their first suspension: dispatch START,
\* enter saveDraftWithUrlUpdate, issue the save.
BeginPid(i, op, draft, pidType) ==
  /\ store' = Reduce(store, Ev(StartType(op), [pidType |-> pidType]))
  /\ proc' = [proc EXCEPT ![i] =
       [IdleProc EXCEPT !.op = op, !.pc = "awaitPidSave", !.draft = draft,
                        !.arg = pidType, !.failType = FailType(op),
                        !.result = "pending"]]
  /\ events' = [events EXCEPT ![i] =
                  <<Ev(StartType(op), [pidType |-> pidType])>>]
  /\ calls' = [calls EXCEPT ![i] = <<Call("save", <<draft>>)>>]
  /\ navs' = [navs EXCEPT ![i] = <<>>]
  /\ replies' = [replies EXCEPT ![i] = <<>>]
  /\ UNCHANGED feedback

reservePID(i, draft, pidType) ==
  /\ CanStart(i)
  /\ BeginPid(i, "reservePID", draft, pidType)

discardPID(i, draft, pidType) ==
  /\ CanStart(i)
  /\ BeginPid(i, "discardPID", draft, pidType)

\* Variant: the PID thunks stop on validation errors as _saveDraft does.
pid_saved_validating(p, response) ==
  IF draftHasValidationErrors(response)
    THEN Throw(<<Ev("DRAFT_HAS_VALIDATION_ERRORS",
                    [data |-> response.data, errors |-> response.errors])>>,
               response, response)
    ELSE Eff(<<>>, <<Call(p.op, <<response.data.links, p.arg>>)>>,
             saveDraftWithUrlUpdate(p.draft, response),
             "awaitPid", "pending", Undefined, response)

\* reservePID / discardPID once the save has resolved: call the PID endpoint
\* on the links of the saved draft.
pid_saved(p, response) ==
  LET draftWithLinks == response.data
  IN  Eff(<<>>, <<Call(p.op, <<draftWithLinks.links, p.arg>>)>>,
          saveDraftWithUrlUpdate(p.draft, response),
          "awaitPid", "pending", Undefined, response)

\* Variant: the success action carries the data of the save response.
pid_resolved_saveData(p, response) ==
  Eff(<<Ev(IF p.op = "reservePID" THEN "RESERVE_PID_SUCCEEDED"
                                  ELSE "DISCARD_PID_SUCCEEDED",
           [data |-> p.response.data])>>,
      <<>>, <<>>, "done", "resolved", Undefined, response)

pid_resolved(p, response) ==
  Eff(<<Ev(IF p.op = "reservePID" THEN "RESERVE_PID_SUCCEEDED"
                                  ELSE "DISCARD_PID_SUCCEEDED",
           [data |-> response.data])>>,
      <<>>, <<>>, "done", "resolved", Undefined, response)

pid_rejected(p, error) ==
  Throw(<<FailedEvent(FailType(p.op), error)>>, error, p.response)

PidSaveResolved(i) ==
  /\ proc[i].pc = "awaitPidSave"
  /\ \E response \in SaveResponses(proc[i].draft) :
       Apply(i, Resolved("save", response), pid_saved(proc[i], response))

PidSaveRejected(i) ==
  /\ proc[i].pc = "awaitPidSave"
  /\ \E error \in Errors :
       Apply(i, Rejected("save", error), pid_rejected(proc[i], error))

PidResolved(i) ==
  /\ proc[i].pc = "awaitPid"
  /\ LET response ==
           PidResponse(proc[i].op, proc[i].response.data.links, proc[i].arg)
     IN  Apply(i, Resolved(proc[i].op, response),
               pid_resolved(proc[i], response))

PidRejected(i) ==
  /\ proc[i].pc = "awaitPid"
  /\ \E error \in Errors :
       Apply(i, Rejected(proc[i].op, error), pid_rejected(proc[i], error))

changeSelectedCommunity(community) ==
  /\ store' = Reduce(store, Ev("SET_COMMUNITY", [community |-> community]))
  /\ UNCHANGED <<proc, events, calls, navs, replies, feedback>>

\* The thunks invoked one after another: slot 1 alone is used, an invocation
\* starts once the previous one has settled, and the community selection can
\* change at any moment, also while a backend call is in flight.
Next ==
  \/ \E draft \in Drafts : save(1, draft)
  \/ \E draft \in Drafts : publish(1, draft)
  \/ \E draft \in Drafts : submitReview(1, draft)
  \/ \E draft \in Drafts : preview(1, draft)
  \/ \E draft \in Drafts, d \in {"discarding", "deleting"} : delete_(1, draft, d)
  \/ \E draft \in Drafts, t \in PidTypes : reservePID(1, draft, t)
  \/ \E draft \in Drafts, t \in PidTypes : discardPID(1, draft, t)
  \/ \E c \in Communities \cup {Null} : changeSelectedCommunity(c)
  \/ SaveResolved(1)
  \/ SaveRejected(1)
  \/ ReviewResolved(1)
  \/ ReviewRejected(1)
  \/ ReadResolved(1)
  \/ ReadRejected(1)
  \/ PublishResolved(1)
  \/ PublishRejected(1)
  \/ SubmitReviewResolved(1)
  \/ SubmitReviewRejected(1)
  \/ DeleteResolved(1)
  \/ DeleteRejected(1)
  \/ PidSaveResolved(1)
  \/ PidSaveRejected(1)
  \/ PidResolved(1)
  \/ PidRejected(1)

Spec == Init /\ [][Next]_vars

\* Invocation i has not been made yet and, unless it is the first, is made
\* while the invocation before it is still awaiting a backend call.
StartsInFlight(i) ==
  /\ proc[i].pc = "idle"
  /\ IF i = 1 THEN TRUE ELSE proc[i - 1].pc \notin {"idle", "done"}

\* Overlapping saves: the slots are invoked in order, each while its
\* predecessor is in flight, and the continuations of the slots interleave in
\* any order at the backend-call boundaries.
NextConcurrent ==
  \/ \E i \in Inv, draft \in Drafts : StartsInFlight(i) /\ save(i, draft)
  \/ \E c \in Communities \cup {Null} : changeSelectedCommunity(c)
  \/ \E i \in Inv : SaveResolved(i)
  \/ \E i \in Inv : SaveRejected(i)
  \/ \E i \in Inv : ReviewResolved(i)
  \/ \E i \in Inv : ReviewRejected(i)
  \/ \E i \in Inv : ReadResolved(i)
  \/ \E i \in Inv : ReadRejected(i)

SpecConcurrent == Init /\ [][NextConcurrent]_vars

\* ------------------------------------------------ the FormFeedback component

\* Values of an errors document: a string, an array, an object with its
\* entries in insertion order; Undefined stands for an absent member.
Str(value) == [kind |-> "string", value |-> value]
Arr(items) == [kind |-> "array", items |-> items]
Obj(entries) == [kind |-> "object", entries |-> entries]

\* The key under which Object.entries and for..in list position k of an array.
IndexKey(k) == <<"0", "1", "2">>[k]

\* Object.entries(value) of an object or an array.
Entries(value) ==
  IF value.kind = "object" THEN value.entries
  ELSE [k \in DOMAIN value.items |-> <<IndexKey(k), value.items[k]>>]

\* value?.[key]: undefined when value is undefined or has no such member.
Member(value, key) ==
  IF value = Undefined \/ value.kind # "object" THEN Undefined
  ELSE LET ks == {k \in DOMAIN value.entries : value.entries[k][1] = key}
       IN  IF ks = {} THEN Undefined
           ELSE value.entries[CHOOSE k \in ks : TRUE][2]

\* lodash isObject: true of objects and of arrays.
isObject(value) == value # Undefined /\ value.kind \in {"object", "array"}

\* value || {}
OrEmptyObject(value) ==
  IF value = Undefined \/ value = Str("") THEN Obj(<<>>) ELSE value

\* leafTraverse of ../utils, collecting what it hands to its callback: a
\* string is one leaf, an object or array is walked child by child in key
\* order, depth first.
RECURSIVE leafTraverseAll(_)
leafTraverseAll(values) ==
  IF values = <<>> THEN <<>>
  ELSE LET value == Head(values)
           leaves == IF value.kind = "string" THEN <<value.value>>
                     ELSE leafTraverseAll([k \in DOMAIN Entries(value) |->
                                             Entries(value)[k][2]])
       IN  leaves \o leafTraverseAll(Tail(values))

leafTraverse(value) == leafTraverseAll(<<value>>)

toErrorMessages(errorValue) == leafTraverse(errorValue)

\* A dotted key such as 'metadata.title' is the tuple of its parts; a label
\* is the text i18next.t is given, which is what it returns in the source
\* language.
defaultLabels ==
  (<<"files", "enabled">> :> "Files")
  @@ (<<"metadata", "resource_type">> :> "Resource type")
  @@ (<<"metadata", "title">> :> "Title")
  @@ (<<"metadata", "additional_titles">> :> "Additional titles")
  @@ (<<"metadata", "publication_date">> :> "Publication date")
  @@ (<<"metadata", "creators">> :> "Creators")
  @@ (<<"metadata", "contributors">> :> "Contributors")
  @@ (<<"metadata", "description">> :> "Description")
  @@ (<<"metadata", "additional_descriptions">> :> "Additional descriptions")
  @@ (<<"metadata", "rights">> :> "Licenses")
  @@ (<<"metadata", "languages">> :> "Languages")
  @@ (<<"metadata", "dates">> :> "Dates")
  @@ (<<"metadata", "version">> :> "Version")
  @@ (<<"metadata", "publisher">> :> "Publisher")
  @@ (<<"metadata", "related_identifiers">> :> "Related works")
  @@ (<<"metadata", "identifiers">> :> "Alternate identifiers")
  @@ (<<"access", "embargo", "until">> :> "Embargo until")
  @@ (<<"pids", "doi">> :> "DOI")
  @@ (<<"pids">> :> "PIDS")

\* this.labels of a component constructed without a labels prop.
labels == defaultLabels

\* this.labels[key] || 'Unknown field'
Label(key) == IF key \in DOMAIN labels THEN labels[key] ELSE "Unknown field"

\* Object.entries(value).map(([key, value]) => [prefix + key, value])
Prefixed(prefix, value) ==
  [k \in DOMAIN Entries(value) |->
     <<prefix \o <<Entries(value)[k][1]>>, Entries(value)[k][2]>>]

\* Object.fromEntries: a key keeps the place of its first entry and the
\* value of its last.
RECURSIVE fromEntriesFrom(_, _)
fromEntriesFrom(entries, k) ==
  IF k > Len(entries) THEN <<>>
  ELSE IF \E j \in 1..(k - 1) : entries[j][1] = entries[k][1]
    THEN fromEntriesFrom(entries, k + 1)
    ELSE LET last == CHOOSE j \in k..Len(entries) :
                       /\ entries[j][1] = entries[k][1]
                       /\ \A m \in (j + 1)..Len(entries) :
                            entries[m][1] # entries[k][1]
         IN  <<<<entries[k][1], entries[last][2]>>>>
               \o fromEntriesFrom(entries, k + 1)

fromEntries(entries) == fromEntriesFrom(entries, 1)

\* Step 0: the first and second level keys collapsed into dotted keys.
step0(errors) ==
  LET metadata == OrEmptyObject(Member(errors, "metadata"))
      files == OrEmptyObject(Member(errors, "files"))
      access == OrEmptyObject(Member(Member(errors, "access"), "embargo"))
      pids == OrEmptyObject(Member(errors, "pids"))
      step0_pids == IF isObject(pids) THEN Prefixed(<<"pids">>, pids)
                    ELSE <<<<<<"pids">>, pids>>>>
  IN  fromEntries(Prefixed(<<"metadata">>, metadata)
                    \o Prefixed(<<"files">>, files)
                    \o Prefixed(<<"access", "embargo">>, access)
                    \o step0_pids)

\* Step 1: each error value turned into its array of messages.
step1(errors) ==
  [k \in DOMAIN step0(errors) |->
     <<step0(errors)[k][1], toErrorMessages(step0(errors)[k][2])>>]

\* Variant: the messages of a key replace those already under its label.
groupUnderLabel_replacing(labelled, label, messages) ==
  IF \E k \in DOMAIN labelled : labelled[k][1] = label
    THEN [k \in DOMAIN labelled |->
            IF labelled[k][1] = label THEN <<label, messages>>
            ELSE labelled[k]]
    ELSE Append(labelled, <<label, messages>>)

\* One pass of the step 2 loop: the messages of a key are appended to those
\* already under its label.
groupUnderLabel(labelled, label, messages) ==
  IF \E k \in DOMAIN labelled : labelled[k][1] = label
    THEN [k \in DOMAIN labelled |->
            IF labelled[k][1] = label THEN <<label, labelled[k][2] \o messages>>
            ELSE labelled[k]]
    ELSE Append(labelled, <<label, messages>>)

\* Step 2: the messages grouped by label, labels in order of first use.
RECURSIVE step2(_, _)
step2(keyed, labelledErrorMessages) ==
  IF keyed = <<>> THEN labelledErrorMessages
  ELSE step2(Tail(keyed),
             groupUnderLabel(labelledErrorMessages, Label(Head(keyed)[1]),
                             Head(keyed)[2]))

toLabelledErrorMessages(errors) == step2(step1(errors), <<>>)

\* [...new Set(messages)]: the first occurrence of each message, in order.
RECURSIVE uniqueFrom(_, _)
uniqueFrom(messages, seen) ==
  IF messages = <<>> THEN <<>>
  ELSE IF Head(messages) \in seen THEN uniqueFrom(Tail(messages), seen)
  ELSE <<Head(messages)>>
         \o uniqueFrom(Tail(messages), seen \cup {Head(messages)})

\* Variant: the messages are rendered as they come, duplicates included.
renderErrorMessages_asGiven(messages) ==
  IF Len(messages) = 1 THEN [kind |-> "text", value |-> messages[1]]
  ELSE [kind |-> "list", items |-> messages]

\* Inline text for one unique message, a list of the unique ones otherwise.
renderErrorMessages(messages) ==
  LET uniqueMessages == uniqueFrom(messages, {})
  IN  IF Len(uniqueMessages) = 1 THEN [kind |-> "text", value |-> messages[1]]
      ELSE [kind |-> "list", items |-> uniqueMessages]

\* i18next.t(text): the text, translated.
i18next_t(text) == [text |-> text]

SomethingWentWrong(what) ==
  i18next_t(<<"Oops, something went wrong!", what,
      "Please try again. If the problem persists, contact user support.">>)

\* The table ACTIONS: the feedback and message of the action states that
\* have one.
Actions ==
  ("DRAFT_SAVE_SUCCEEDED" :>
     [feedback |-> "positive",
      message |-> i18next_t(<<"Record successfully saved.">>)])
  @@ ("DRAFT_HAS_VALIDATION_ERRORS" :>
     [feedback |-> "warning",
      message |-> i18next_t(<<"Record saved with validation errors:">>)])
  @@ ("DRAFT_SAVE_FAILED" :>
     [feedback |-> "negative",
      message |-> SomethingWentWrong("The draft was not saved.")])
  @@ ("DRAFT_PUBLISH_FAILED" :>
     [feedback |-> "negative",
      message |-> SomethingWentWrong("The draft was not published.")])
  @@ ("DRAFT_SUBMIT_REVIEW_FAILED" :>
     [feedback |-> "negative",
      message |-> SomethingWentWrong("The draft was not submitted for review.")])
  @@ ("DRAFT_DELETE_FAILED" :>
     [feedback |-> "negative",
      message |-> SomethingWentWrong("The draft was not deleted.")])
  @@ ("DRAFT_PREVIEW_FAILED" :>
     [feedback |-> "negative",
      message |-> SomethingWentWrong("The draft cannot be previewed.")])
  @@ ("RESERVE_PID_FAILED" :>
     [feedback |-> "negative",
      message |-> SomethingWentWrong("The identifier was not reserved.")])
  @@ ("DISCARD_PID_FAILED" :>
     [feedback |-> "negative",
      message |-> SomethingWentWrong("The identifier was not discarded.")])
  @@ ("FILE_UPLOAD_SAVE_DRAFT_FAILED" :>
     [feedback |-> "negative",
      message |-> SomethingWentWrong(
        "The draft could not be saved before uploading the file.")])
  @@ ("FILE_IMPORT_FAILED" :>
     [feedback |-> "negative",
      message |-> SomethingWentWrong(
        "Importing files from the previous draft version failed.")])

\* Variant: an action state without an entry gets a message of its own.
getAction_always(actionState) ==
  IF actionState \in DOMAIN Actions THEN Actions[actionState]
  ELSE IF actionState = NoAction
    THEN [feedback |-> Undefined, message |-> Undefined]
    ELSE [feedback |-> Undefined, message |-> i18next_t(<<actionState>>)]

\* _get(ACTIONS, actionState, {feedback: undefined, message: undefined})
getAction(actionState) ==
  IF actionState \in DOMAIN Actions THEN Actions[actionState]
  ELSE [feedback |-> Undefined, message |-> Undefined]

\* render(): null without a message, else the message with one item per
\* label, each item holding the rendered messages of the label.
render(props) ==
  LET errors == OrEmptyObject(props.errors)
      found == getAction(props.actionState)
  IN  IF found.message = Undefined THEN Null
      ELSE LET labelledMessages == toLabelledErrorMessages(errors)
           IN  [feedback |-> found.feedback,
                message |-> found.message,
                listErrors |->
                  [k \in DOMAIN labelledMessages |->
                     <<labelledMessages[k][1],
                       renderErrorMessages(labelledMessages[k][2])>>]]

\* Error documents of the backend: any of the sections metadata, files,
\* access, pids and custom_fields may be present.
OneMessage(message) == Arr(<<Str(message)>>)

MetadataErrors ==
  { Undefined,
    Obj(<<<<"title", OneMessage("x")>>>>),
    Obj(<<<<"title", OneMessage("x")>>,
          <<"additional_titles", OneMessage("y")>>>>),
    Obj(<<<<"subjects", OneMessage("x")>>, <<"funding", OneMessage("y")>>>>),
    Obj(<<<<"creators",
            Arr(<<Obj(<<<<"person_or_org",
                          Obj(<<<<"family_name", OneMessage("x")>>>>)>>>>),
                  Obj(<<<<"affiliations", OneMessage("x")>>>>)>>)>>>>) }

FilesErrors == {Undefined, Obj(<<<<"enabled", OneMessage("x")>>>>)}

AccessErrors ==
  { Undefined,
    Obj(<<<<"embargo", Obj(<<<<"until", OneMessage("x")>>>>)>>>>),
    Obj(<<<<"record", OneMessage("y")>>>>) }

PidsErrors ==
  { Undefined,
    Str("Invalid DOI"),
    OneMessage("Invalid DOI"),
    Obj(<<<<"doi", OneMessage("x")>>>>) }

CustomFieldsErrors == {Undefined, Obj(<<<<"cern:experiment", OneMessage("y")>>>>)}

Present(key, value) == IF value = Undefined THEN <<>> ELSE <<<<key, value>>>>

Document(metadata, files, access, pids, custom_fields) ==
  Obj(Present("metadata", metadata) \o Present("files", files)
        \o Present("access", access) \o Present("pids", pids)
        \o Present("custom_fields", custom_fields))

ErrorDocuments ==
  { Document(m, f, a, p, c) :
      m \in MetadataErrors, f \in FilesErrors, a \in AccessErrors,
      p \in PidsErrors, c \in CustomFieldsErrors }

MaxMessages == 3
MessageLists == UNION {[1..n -> {"a", "b"}] : n \in 0..MaxMessages}

LifecycleOps ==
  {"save", "publish", "submitReview", "preview", "delete", "reservePID",
   "discardPID"}

\* What the lifecycle leaves in the actionState of the store.
ActionStates ==
  {NoAction} \cup {StartType(op) : op \in LifecycleOps}
    \cup {FailType(op) : op \in LifecycleOps}
    \cup {"DRAFT_SAVE_SUCCEEDED", "DRAFT_HAS_VALIDATION_ERRORS",
          "DRAFT_FETCHED", "RESERVE_PID_SUCCEEDED", "DISCARD_PID_SUCCEEDED"}

\* The props mapStateToProps hands to the component.
Props ==
  [actionState : ActionStates,
   errors : {Undefined,
             Document(Obj(<<<<"title", OneMessage("x")>>>>), Undefined,
                      Undefined, Undefined, Undefined)}]

Called(fn, arg) ==
  [fn |-> fn, arg |-> arg, returned |-> FALSE, result |-> Undefined]

\* One method of the component is about to run on one argument.
InitFeedback ==
  /\ store = [actionState |-> NoAction,
              record |-> [id |-> NoId, links |-> Undefined],
              community |-> [selected |-> Null,
                             recordHasInclusionRequest |-> FALSE,
                             isReviewForSelectedCommunity |-> FALSE]]
  /\ proc = [i \in Inv |-> IdleProc]
  /\ events = [i \in Inv |-> <<>>]
  /\ calls = [i \in Inv |-> <<>>]
  /\ navs = [i \in Inv |-> <<>>]
  /\ replies = [i \in Inv |-> <<>>]
  /\ feedback \in
       {Called("toLabelledErrorMessages", errors) : errors \in ErrorDocuments}
         \cup {Called("renderErrorMessages", messages) :
                 messages \in MessageLists}
         \cup {Called("render", props) : props \in Props}

Return(result) ==
  /\ ~feedback.returned
  /\ feedback' = [feedback EXCEPT !.returned = TRUE, !.result = result]
  /\ UNCHANGED <<store, proc, events, calls, navs, replies>>

ReturnLabelledErrorMessages ==
  /\ feedback.fn = "toLabelledErrorMessages"
  /\ Return(toLabelledErrorMessages(feedback.arg))

ReturnRenderedErrorMessages ==
  /\ feedback.fn = "renderErrorMessages"
  /\ Return(renderErrorMessages(feedback.arg))

ReturnRendered ==
  /\ feedback.fn = "render"
  /\ Return(render(feedback.arg))

NextFeedback ==
  \/ ReturnLabelledErrorMessages
  \/ ReturnRenderedErrorMessages
  \/ ReturnRendered

SpecFeedback == InitFeedback /\ [][NextFeedback]_vars

\* ============================================================ properties

PersistOps == {"save", "publish", "submitReview", "preview"}
PidOps == {"reservePID", "discardPID"}
ReviewCalls == {"deleteReview", "createOrUpdateReview"}

NumEvents(i, type) ==
  Cardinality({k \in DOMAIN events[i] : events[i][k].type = type})

NumCalls(i, name) ==
  Cardinality({k \in DOMAIN calls[i] : calls[i][k].name = name})

\* window.location has been assigned or replaced (a page load), as opposed to
\* window.history.replaceState, which only rewrites the address.
HasNavigated(i) ==
  \E k \in DOMAIN navs[i] :
    navs[i][k].kind \in {"location.assign", "location.replace"}

\* The save call of invocation i has rejected with `error`.
SaveRejectedWith(i, error) ==
  /\ Len(replies[i]) >= 1
  /\ replies[i][1] = [call |-> "save", ok |-> FALSE, value |-> error]

\* The save call of invocation i has resolved.
SaveHasResolved(i) ==
  /\ Len(replies[i]) >= 1
  /\ replies[i][1].call = "save"
  /\ replies[i][1].ok

SaveResponseOf(i) == replies[i][1].value

\* The save call has resolved with a non-empty errors payload.
SoftFailure(i) ==
  /\ SaveHasResolved(i)
  /\ SaveResponseOf(i).errors.keys # {}

\* The save call has resolved with no errors payload, or an empty one.
CleanSave(i) ==
  /\ SaveHasResolved(i)
  /\ SaveResponseOf(i).errors.keys = {}

\* C1: in save, a rejection E of the backend save call gives exactly one
\* DRAFT_SAVE_FAILED, whose payload errors are E.errors, the promise of save
\* rejects with E itself, and DRAFT_SAVE_SUCCEEDED is not dispatched.
C1_SaveRejection ==
  \A i \in Inv : \A error \in Errors :
    (proc[i].op = "save" /\ SaveRejectedWith(i, error)) =>
      /\ NumEvents(i, "DRAFT_SAVE_FAILED") = 1
      /\ \E k \in DOMAIN events[i] :
           events[i][k] = [type |-> "DRAFT_SAVE_FAILED",
                           payload |-> [errors |-> error.errors]]
      /\ proc[i].result = "rejected"
      /\ proc[i].thrown = error
      /\ NumEvents(i, "DRAFT_SAVE_SUCCEEDED") = 0

C1_Witness ==
  \E i \in Inv :
    /\ proc[i].op = "save"
    /\ SaveRejectedWith(i, [errors |-> "E2"])
    /\ proc[i].pc = "done"

\* C2: in save, a save call that resolves with a non-empty errors payload
\* gives DRAFT_HAS_VALIDATION_ERRORS carrying the data and the errors of the
\* response, and neither DRAFT_SAVE_SUCCEEDED nor DRAFT_SAVE_FAILED.
C2_ValidationErrors ==
  \A i \in Inv :
    (proc[i].op = "save" /\ SoftFailure(i)) =>
      /\ \E k \in DOMAIN events[i] :
           events[i][k] = [type |-> "DRAFT_HAS_VALIDATION_ERRORS",
                           payload |-> [data |-> SaveResponseOf(i).data,
                                        errors |-> SaveResponseOf(i).errors]]
      /\ NumEvents(i, "DRAFT_SAVE_SUCCEEDED") = 0
      /\ NumEvents(i, "DRAFT_SAVE_FAILED") = 0

C2_Witness ==
  \E i \in Inv :
    /\ proc[i].op = "save"
    /\ SoftFailure(i)
    /\ proc[i].pc = "done"
    /\ NumEvents(i, "DRAFT_HAS_VALIDATION_ERRORS") = 1

\* C3: in save, publish, submitReview and preview a soft validation failure
\* aborts what follows: the save is the only backend call of the invocation,
\* window.location is not changed, and the promise rejects.
C3_SoftFailureAborts ==
  \A i \in Inv :
    (proc[i].op \in PersistOps /\ SoftFailure(i)) =>
      /\ Len(calls[i]) = 1
      /\ calls[i][1].name = "save"
      /\ ~HasNavigated(i)
      /\ proc[i].pc = "done"
      /\ proc[i].result = "rejected"

C3_Witness ==
  \E i \in Inv :
    /\ proc[i].op = "publish"
    /\ SoftFailure(i)
    /\ proc[i].depositState.community.selected # Null
    /\ ~proc[i].depositState.community.isReviewForSelectedCommunity
    /\ proc[i].result = "rejected"

\* C4: every rejection of a backend call of an invocation is followed by a
\* dispatch of the FAILED action of the operation with the errors of the
\* rejection, and the promise rejects with that rejection.
C4_EveryRejectionDispatchesFailed ==
  \A i \in Inv : \A k \in DOMAIN replies[i] :
    ~replies[i][k].ok =>
      /\ \E n \in DOMAIN events[i] :
           events[i][n] = [type |-> proc[i].failType,
                           payload |-> [errors |-> replies[i][k].value.errors]]
      /\ proc[i].result = "rejected"
      /\ proc[i].thrown = replies[i][k].value

\* C5: once the save has resolved without validation errors, the review call
\* of the invocation is decided by the community state it was given:
\* createOrUpdateReview exactly when a community is selected and the review
\* is not for it, deleteReview exactly when the record has an inclusion
\* request and no community is selected, and never both.
C5_ReviewDecision ==
  \A i \in Inv :
    (proc[i].op \in PersistOps /\ CleanSave(i)) =>
      LET cs == proc[i].depositState.community
      IN  /\ NumCalls(i, "createOrUpdateReview") =
               IF cs.selected # Null /\ ~cs.isReviewForSelectedCommunity
                 THEN 1 ELSE 0
          /\ NumCalls(i, "deleteReview") =
               IF cs.recordHasInclusionRequest /\ cs.selected = Null
                 THEN 1 ELSE 0
          /\ NumCalls(i, "createOrUpdateReview")
               + NumCalls(i, "deleteReview") <= 1

C5_Witness ==
  \E i \in Inv :
    /\ proc[i].op \in PersistOps
    /\ CleanSave(i)
    /\ proc[i].depositState.community.recordHasInclusionRequest
    /\ proc[i].depositState.community.selected # Null
    /\ NumCalls(i, "createOrUpdateReview") = 1

\* The review reconciliation of invocation i has to change the review.
NeedsReviewMutation(i) ==
  LET cs == proc[i].depositState.community
  IN  \/ cs.selected # Null /\ ~cs.isReviewForSelectedCommunity
      \/ cs.recordHasInclusionRequest /\ cs.selected = Null

\* C6: a save that needs a review mutation issues the review call only once
\* its save call has resolved, the read only once the review call has
\* resolved, and when it succeeds it has made exactly the calls save, one
\* review mutation, one read, in this order, and dispatched DRAFT_FETCHED
\* exactly once.
C6_MutationThenRefetch ==
  \A i \in Inv :
    (proc[i].op = "save" /\ NeedsReviewMutation(i)) =>
      /\ \A k \in DOMAIN calls[i] :
           /\ calls[i][k].name \in ReviewCalls =>
                (k = 2 /\ CleanSave(i))
           /\ calls[i][k].name = "read" =>
                /\ k = 3
                /\ Len(replies[i]) >= 2
                /\ replies[i][2].ok
                /\ replies[i][2].call = calls[i][2].name
                /\ calls[i][2].name \in ReviewCalls
      /\ proc[i].result = "resolved" =>
           /\ Len(calls[i]) = 3
           /\ calls[i][1].name = "save"
           /\ calls[i][2].name \in ReviewCalls
           /\ calls[i][3].name = "read"
           /\ NumEvents(i, "DRAFT_FETCHED") = 1

C6_Witness ==
  \E i \in Inv :
    /\ proc[i].op = "save"
    /\ NeedsReviewMutation(i)
    /\ proc[i].result = "resolved"
    /\ calls[i][2].name = "deleteReview"

\* C7: a save of a draft without id, with no community selected and no
\* inclusion request, calls the backend once, with save; when it succeeds
\* DRAFT_SAVE_SUCCEEDED carries the data of the save response, and the
\* record of the store has the id and the links the backend assigned.
C7_FirstSave ==
  \A i \in Inv :
    ( /\ proc[i].op = "save"
      /\ proc[i].draft.id = NoId
      /\ proc[i].depositState.community.selected = Null
      /\ ~proc[i].depositState.community.recordHasInclusionRequest ) =>
      /\ calls[i] = <<[name |-> "save", args |-> <<proc[i].draft>>]>>
      /\ proc[i].result = "resolved" =>
           /\ CleanSave(i)
           /\ events[i][Len(events[i])] =
                [type |-> "DRAFT_SAVE_SUCCEEDED",
                 payload |-> [data |-> SaveResponseOf(i).data]]
           /\ store.record = SaveResponseOf(i).data
           /\ store.record.id = CreatedId
           /\ store.record.links.self_html = <<"/uploads", CreatedId>>

C7_Witness ==
  \E i \in Inv :
    /\ proc[i].op = "save"
    /\ proc[i].draft.id = NoId
    /\ proc[i].depositState.community.selected = Null
    /\ ~proc[i].depositState.community.recordHasInclusionRequest
    /\ proc[i].result = "resolved"

TerminalSaveEvents ==
  {"DRAFT_SAVE_SUCCEEDED", "DRAFT_SAVE_FAILED", "DRAFT_HAS_VALIDATION_ERRORS"}

\* C8: a save whose backend calls have all settled has dispatched, after
\* DRAFT_SAVE_STARTED, exactly one of DRAFT_SAVE_SUCCEEDED, DRAFT_SAVE_FAILED
\* and DRAFT_HAS_VALIDATION_ERRORS, and has not left the action state of the
\* store at DRAFT_SAVE_STARTED.
C8_SaveAlwaysTerminal ==
  \A i \in Inv :
    (proc[i].op = "save" /\ proc[i].pc = "done") =>
      /\ events[i][1].type = "DRAFT_SAVE_STARTED"
      /\ Cardinality({k \in DOMAIN events[i] :
                        k > 1 /\ events[i][k].type \in TerminalSaveEvents}) = 1
      /\ store.actionState # "DRAFT_SAVE_STARTED"

\* The response that _saveDraft returned to the thunk of invocation i.
PersistedResponse(i) ==
  IF NeedsReviewMutation(i) THEN replies[i][3].value ELSE replies[i][1].value

PublishReplyIndex(i) == IF NeedsReviewMutation(i) THEN 4 ELSE 2

\* C9: publish calls the backend publish only after _saveDraft has returned,
\* with the links of the response it returned (those of the re-fetched draft
\* after a review mutation); when the publish resolves nothing but a
\* DRAFT_FETCHED has been dispatched since DRAFT_PUBLISH_STARTED and the page
\* goes to self_html of the published record; when it rejects
\* DRAFT_PUBLISH_FAILED carries the errors of the rejection, which is
\* re-thrown, and the page does not navigate.
C9_Publish ==
  \A i \in Inv :
    (proc[i].op = "publish" /\ NumCalls(i, "publish") > 0) =>
      LET n == PublishReplyIndex(i)
      IN  /\ NumCalls(i, "publish") = 1
          /\ CleanSave(i)
          /\ Len(replies[i]) >= n - 1
          /\ \A k \in 1..(n - 1) : replies[i][k].ok
          /\ calls[i][n] =
               [name |-> "publish",
                args |-> <<PersistedResponse(i).data.links>>]
          /\ PersistedResponse(i).data.links.from =
               IF NeedsReviewMutation(i) THEN "read" ELSE "save"
          /\ (Len(replies[i]) >= n /\ replies[i][n].ok) =>
               /\ \A k \in DOMAIN events[i] :
                    events[i][k].type \in
                      {"DRAFT_PUBLISH_STARTED", "DRAFT_FETCHED"}
               /\ events[i][1].type = "DRAFT_PUBLISH_STARTED"
               /\ navs[i][Len(navs[i])] =
                    [kind |-> "location.replace",
                     url |-> replies[i][n].value.data.links.self_html]
               /\ proc[i].result = "resolved"
          /\ (Len(replies[i]) >= n /\ ~replies[i][n].ok) =>
               /\ events[i][Len(events[i])] =
                    [type |-> "DRAFT_PUBLISH_FAILED",
                     payload |-> [errors |-> replies[i][n].value.errors]]
               /\ NumEvents(i, "DRAFT_PUBLISH_FAILED") = 1
               /\ proc[i].result = "rejected"
               /\ proc[i].thrown = replies[i][n].value
               /\ ~HasNavigated(i)

C9_Witness ==
  \E i \in Inv :
    /\ proc[i].op = "publish"
    /\ NeedsReviewMutation(i)
    /\ proc[i].result = "resolved"
    /\ HasNavigated(i)

\* C10: reservePID and discardPID never call createOrUpdateReview,
\* deleteReview or read and never dispatch DRAFT_FETCHED or
\* DRAFT_HAS_VALIDATION_ERRORS, whatever the community state; and a save
\* response with a non-empty errors payload does not stop them from calling
\* the backend reservePID / discardPID.
C10_PidSimplifiedPersist ==
  \A i \in Inv :
    proc[i].op \in PidOps =>
      /\ \A k \in DOMAIN calls[i] :
           calls[i][k].name \notin ReviewCalls \cup {"read"}
      /\ NumEvents(i, "DRAFT_FETCHED") = 0
      /\ NumEvents(i, "DRAFT_HAS_VALIDATION_ERRORS") = 0
      /\ SoftFailure(i) =>
           /\ Len(calls[i]) = 2
           /\ calls[i][2].name = proc[i].op

C10_Witness ==
  \E i \in Inv :
    /\ proc[i].op = "discardPID"
    /\ SoftFailure(i)
    /\ store.community.selected # Null
    /\ ~store.community.isReviewForSelectedCommunity
    /\ NumCalls(i, "discardPID") = 1

PidSucceededType(op) ==
  IF op = "reservePID" THEN "RESERVE_PID_SUCCEEDED" ELSE "DISCARD_PID_SUCCEEDED"

PidFailedType(op) ==
  IF op = "reservePID" THEN "RESERVE_PID_FAILED" ELSE "DISCARD_PID_FAILED"

\* C11: in reservePID (discardPID), when the save and the PID call both
\* resolve, the SUCCEEDED action of the thunk is dispatched once with the data
\* of the PID response and no FAILED action is; when one of them rejects, the
\* FAILED action of the thunk is dispatched once with the errors of the
\* rejection, no SUCCEEDED action is, and the rejection is re-thrown; after a
\* rejected save the PID call is not made.
C11_PidOutcome ==
  \A i \in Inv :
    proc[i].op \in PidOps =>
      LET succeeded == PidSucceededType(proc[i].op)
          failed == PidFailedType(proc[i].op)
      IN  /\ (Len(replies[i]) = 2 /\ replies[i][1].ok /\ replies[i][2].ok) =>
               /\ NumEvents(i, succeeded) = 1
               /\ events[i][Len(events[i])] =
                    [type |-> succeeded,
                     payload |-> [data |-> replies[i][2].value.data]]
               /\ replies[i][2].call = proc[i].op
               /\ replies[i][2].value.data # replies[i][1].value.data
               /\ NumEvents(i, failed) = 0
               /\ proc[i].result = "resolved"
          /\ \A k \in DOMAIN replies[i] :
               ~replies[i][k].ok =>
                 /\ NumEvents(i, failed) = 1
                 /\ events[i][Len(events[i])] =
                      [type |-> failed,
                       payload |-> [errors |-> replies[i][k].value.errors]]
                 /\ NumEvents(i, succeeded) = 0
                 /\ proc[i].result = "rejected"
                 /\ proc[i].thrown = replies[i][k].value
          /\ (Len(replies[i]) >= 1 /\ ~replies[i][1].ok) =>
               /\ NumCalls(i, proc[i].op) = 0
               /\ Len(calls[i]) = 1

C11_Witness ==
  \E i \in Inv :
    /\ proc[i].op = "reservePID"
    /\ Len(replies[i]) = 2
    /\ replies[i][1].ok
    /\ replies[i][2].ok
    /\ proc[i].pc = "done"

C11_WitnessRejected ==
  \E i \in Inv :
    /\ proc[i].op = "discardPID"
    /\ Len(replies[i]) = 2
    /\ ~replies[i][2].ok

\* C12: delete dispatches DRAFT_DELETE_STARTED, issues no save call and
\* exactly one backend delete, on the links of the record the store holds
\* (not of the thunk's first argument). When the delete resolves, nothing
\* more is dispatched and the browser is sent to /records/{id of the store's
\* record} if a version is being discarded and to /me/uploads otherwise.
\* When it rejects, DRAFT_DELETE_FAILED carries the rejection's errors, the
\* rejection is re-thrown and there is no navigation.
C12_Delete ==
  \A i \in Inv :
    proc[i].op = "delete" =>
      /\ events[i][1] = Ev("DRAFT_DELETE_STARTED", Undefined)
      /\ NumCalls(i, "save") = 0
      /\ calls[i] = <<Call("delete", <<store.record.links>>)>>
      /\ (Len(replies[i]) = 1 /\ replies[i][1].ok) =>
           /\ Len(events[i]) = 1
           /\ proc[i].result = "resolved"
           /\ navs[i] = <<[kind |-> "location.replace",
                           url |-> IF proc[i].arg = "discarding"
                                     THEN <<"/records", store.record.id>>
                                     ELSE <<"/me/uploads">>]>>
      /\ (Len(replies[i]) = 1 /\ ~replies[i][1].ok) =>
           /\ events[i] = <<Ev("DRAFT_DELETE_STARTED", Undefined),
                            Ev("DRAFT_DELETE_FAILED",
                               [errors |-> replies[i][1].value.errors])>>
           /\ proc[i].result = "rejected"
           /\ proc[i].thrown = replies[i][1].value
           /\ navs[i] = <<>>

\* A version was discarded while the form handed over another draft than the
\* store holds, and the delete resolved.
C12_Witness ==
  \E i \in Inv :
    /\ proc[i].op = "delete"
    /\ proc[i].arg = "discarding"
    /\ proc[i].unused.id # store.record.id
    /\ Len(replies[i]) = 1
    /\ replies[i][1].ok

C12_WitnessRejected ==
  \E i \in Inv :
    proc[i].op = "delete" /\ Len(replies[i]) = 1 /\ ~replies[i][1].ok

\* Position of the last terminal save event of invocation i, 0 if none.
LastTerminal(i) ==
  LET ks == {k \in DOMAIN events[i] : events[i][k].type \in TerminalSaveEvents}
  IN  IF ks = {} THEN 0 ELSE CHOOSE k \in ks : \A m \in ks : m <= k

\* C13: saves that were in flight together all run to their end, and once
\* all of them have finished the action state of the store is a terminal
\* save event, namely the terminal event of one of the invocations (the one
\* that dispatched last, whichever was started first).
C13_LastTerminalWins ==
  (\A i \in Inv : proc[i].op = "save" /\ proc[i].pc = "done") =>
    /\ store.actionState \in TerminalSaveEvents
    /\ \E i \in Inv :
         /\ LastTerminal(i) > 0
         /\ store.actionState = events[i][LastTerminal(i)].type

\* Both overlapping saves have finished and the one started first has
\* overwritten the success of the one started later with its failure.
C13_FirstStartedWins ==
  /\ \A i \in Inv : proc[i].op = "save" /\ proc[i].pc = "done"
  /\ events[1][Len(events[1])].type = "DRAFT_SAVE_FAILED"
  /\ events[MaxInv][Len(events[MaxInv])].type = "DRAFT_SAVE_SUCCEEDED"
  /\ store.actionState = "DRAFT_SAVE_FAILED"

\* ------------------------------------------------ FormFeedback properties

Returned(fn) == feedback.fn = fn /\ feedback.returned

LabelsOf(labelled) == {labelled[k][1] : k \in DOMAIN labelled}

Range(seq) == {seq[k] : k \in DOMAIN seq}

\* The messages of the keys that carry `label`, in the order of the keys.
RECURSIVE MessagesOfLabel(_, _)
MessagesOfLabel(keyed, label) ==
  IF keyed = <<>> THEN <<>>
  ELSE (IF Label(Head(keyed)[1]) = label THEN Head(keyed)[2] ELSE <<>>)
         \o MessagesOfLabel(Tail(keyed), label)

C15_PidsWholeUnlessMapping ==
  Returned("toLabelledErrorMessages") =>
    LET pids == Member(feedback.arg, "pids")
    IN  /\ (pids # Undefined /\ pids.kind # "object") =>
             <<"PIDS", toErrorMessages(pids)>> \in Range(feedback.result)
        /\ (pids # Undefined /\ pids.kind = "object") =>
             /\ "PIDS" \notin LabelsOf(feedback.result)
             /\ \A k \in DOMAIN pids.entries :
                  Label(<<"pids", pids.entries[k][1]>>)
                    \in LabelsOf(feedback.result)

\* Place of the first occurrence of a message.
FirstIndex(messages, message) ==
  CHOOSE k \in DOMAIN messages :
    messages[k] = message /\ \A j \in 1..(k - 1) : messages[j] # message

\* C16: renderErrorMessages returns the bare message when its input holds
\* exactly one distinct message, and otherwise the list of the distinct
\* messages, each once, in the order of their first occurrence (the empty
\* list for an empty input).
C16_RenderUnique ==
  Returned("renderErrorMessages") =>
    LET messages == feedback.arg
        result == feedback.result
    IN  IF Cardinality(Range(messages)) = 1
          THEN result = [kind |-> "text", value |-> messages[1]]
          ELSE /\ result.kind = "list"
               /\ Range(result.items) = Range(messages)
               /\ \A j, k \in DOMAIN result.items :
                    j < k => FirstIndex(messages, result.items[j])
                               < FirstIndex(messages, result.items[k])

\* The list a, a, b has been rendered.
C16_Witness ==
  /\ Returned("renderErrorMessages")
  /\ feedback.arg = <<"a", "a", "b">>

C16_WitnessSingle ==
  /\ Returned("renderErrorMessages")
  /\ feedback.arg = <<"b", "b">>
  /\ feedback.result.kind = "text"

Count(seq, x) == Cardinality({k \in DOMAIN seq : seq[k] = x})

RECURSIVE AllMessages(_)
AllMessages(labelled) ==
  IF labelled = <<>> THEN <<>>
  ELSE Head(labelled)[2] \o AllMessages(Tail(labelled))

\* C17: every message anywhere in the errors document is in the message
\* list of some label of the result, as often as it is in the document.
C17_NoErrorLost ==
  Returned("toLabelledErrorMessages") =>
    \A message \in Range(leafTraverse(feedback.arg)) :
      Count(AllMessages(feedback.result), message)
        >= Count(leafTraverse(feedback.arg), message)

\* C18 as stated: render returns nothing exactly when there is no action
\* state.
C18_SilentOnlyWhenIdle ==
  Returned("render") =>
    (feedback.result = Null <=> feedback.arg.actionState = NoAction)

\* The action states without an entry in the table of messages.
SilentStates ==
  {NoAction} \cup {StartType(op) : op \in LifecycleOps}
    \cup {"DRAFT_FETCHED", "RESERVE_PID_SUCCEEDED", "DISCARD_PID_SUCCEEDED"}

\* C18, amended: render returns nothing exactly when there is no action
\* state or the action state is a STARTED state, DRAFT_FETCHED,
\* RESERVE_PID_SUCCEEDED or DISCARD_PID_SUCCEEDED; for DRAFT_SAVE_SUCCEEDED,
\* DRAFT_HAS_VALIDATION_ERRORS and every FAILED state it returns a message.
C18_SilentWithoutEntry ==
  Returned("render") =>
    /\ feedback.result = Null <=> feedback.arg.actionState \in SilentStates
    /\ feedback.result # Null =>
         feedback.result.message = Actions[feedback.arg.actionState].message

\* render has returned nothing while a save is under way.
C18_Witness ==
  /\ Returned("render")
  /\ feedback.arg.actionState = "DRAFT_SAVE_STARTED"
  /\ feedback.result = Null

C18_WitnessMessage ==
  /\ Returned("render")
  /\ feedback.arg.actionState = "DRAFT_PUBLISH_FAILED"
  /\ feedback.result # Null

\* ------------------------------------------------ order of the events

\* The START and FAILED action types of each operation.
OwnTypes ==
  [save |-> <<"DRAFT_SAVE_STARTED", "DRAFT_SAVE_FAILED">>,
   publish |-> <<"DRAFT_PUBLISH_STARTED", "DRAFT_PUBLISH_FAILED">>,
   submitReview |->
     <<"DRAFT_SUBMIT_REVIEW_STARTED", "DRAFT_SUBMIT_REVIEW_FAILED">>,
   preview |-> <<"DRAFT_PREVIEW_STARTED", "DRAFT_PREVIEW_FAILED">>,
   delete |-> <<"DRAFT_DELETE_STARTED", "DRAFT_DELETE_FAILED">>,
   reservePID |-> <<"RESERVE_PID_STARTED", "RESERVE_PID_FAILED">>,
   discardPID |-> <<"DISCARD_PID_STARTED", "DISCARD_PID_FAILED">>]

StartedTypes == {OwnTypes[op][1] : op \in DOMAIN OwnTypes}
FailedTypes == {OwnTypes[op][2] : op \in DOMAIN OwnTypes}

\* C19: an invocation that has issued a backend call or dispatched an event
\* has dispatched the START of its own operation first, and no START after
\* it; every FAILED event it has dispatched is the FAILED of its own
\* operation.
C19_OwnStartOwnFailed ==
  \A i \in Inv :
    (proc[i].op # "none" \/ calls[i] # <<>> \/ events[i] # <<>>) =>
      /\ proc[i].op \in DOMAIN OwnTypes
      /\ Len(events[i]) >= 1
      /\ events[i][1].type = OwnTypes[proc[i].op][1]
      /\ \A k \in DOMAIN events[i] :
           /\ events[i][k].type \in StartedTypes => k = 1
           /\ events[i][k].type \in FailedTypes =>
                events[i][k].type = OwnTypes[proc[i].op][2]

\* The save call of a publish has rejected and the failure is on record.
C19_Witness ==
  \E i \in Inv :
    /\ proc[i].op = "publish"
    /\ Len(replies[i]) = 1
    /\ ~replies[i][1].ok
    /\ replies[i][1].call = "save"
    /\ events[i][Len(events[i])].type = "DRAFT_PUBLISH_FAILED"

\* C20: a save that has succeeded after a review mutation has dispatched
\* DRAFT_FETCHED and then DRAFT_SAVE_SUCCEEDED, both with the data of the
\* read response, which is not the data of the save response; a save that
\* has succeeded without a review mutation has dispatched no DRAFT_FETCHED,
\* and its DRAFT_SAVE_SUCCEEDED has the data of the save response.
C20_FetchedThenSucceeded ==
  \A i \in Inv :
    proc[i].op = "save" =>
      /\ NumEvents(i, "DRAFT_FETCHED") > 0 =>
           \E k \in DOMAIN calls[i] : calls[i][k].name \in ReviewCalls
      /\ (proc[i].result = "resolved"
            /\ \E k \in DOMAIN calls[i] : calls[i][k].name \in ReviewCalls) =>
           /\ replies[i][3].call = "read"
           /\ events[i] =
                <<Ev("DRAFT_SAVE_STARTED", Undefined),
                  Ev("DRAFT_FETCHED", [data |-> replies[i][3].value.data]),
                  Ev("DRAFT_SAVE_SUCCEEDED",
                     [data |-> replies[i][3].value.data])>>
           /\ replies[i][3].value.data # replies[i][1].value.data
      /\ (proc[i].result = "resolved"
            /\ \A k \in DOMAIN calls[i] : calls[i][k].name \notin ReviewCalls) =>
           events[i] =
             <<Ev("DRAFT_SAVE_STARTED", Undefined),
               Ev("DRAFT_SAVE_SUCCEEDED", [data |-> replies[i][1].value.data])>>

\* A save has succeeded after creating or updating the review.
C20_Witness ==
  \E i \in Inv :
    /\ proc[i].op = "save"
    /\ proc[i].result = "resolved"
    /\ Len(calls[i]) = 3
    /\ calls[i][2].name = "createOrUpdateReview"

C20_WitnessNoMutation ==
  \E i \in Inv :
    /\ proc[i].op = "save"
    /\ proc[i].result = "resolved"
    /\ Len(calls[i]) = 1

\* ------------------------------------------------ the browser address

\* The places in the log of invocation i where the address was replaced.
Replacements(i) ==
  {k \in DOMAIN navs[i] : navs[i][k].kind = "history.replaceState"}

\* C21: in every thunk that saves the draft, the address is replaced, once
\* and with the self_html link of the save response, exactly when the draft
\* passed in has no id and the save call has resolved, whether or not the
\* response carries validation errors; it is not replaced for a draft with
\* an id, nor when the save call has rejected or is still pending.
C21_AddressReplaced ==
  \A i \in Inv :
    proc[i].op \in PersistOps \cup PidOps =>
      IF proc[i].draft.id = NoId /\ SaveHasResolved(i)
        THEN /\ Replacements(i) = {1}
             /\ navs[i][1].url = SaveResponseOf(i).data.links.self_html
        ELSE Replacements(i) = {}

\* A publish of a draft without id whose save response carries validation
\* errors: the address has been replaced and the publish has been aborted.
C21_Witness ==
  \E i \in Inv :
    /\ proc[i].op = "publish"
    /\ proc[i].draft.id = NoId
    /\ SoftFailure(i)
    /\ NumEvents(i, "DRAFT_HAS_VALIDATION_ERRORS") = 1
    /\ Replacements(i) = {1}

C21_WitnessRejected ==
  \E i \in Inv :
    /\ proc[i].op = "reservePID"
    /\ proc[i].draft.id = NoId
    /\ Len(replies[i]) = 1
    /\ ~replies[i][1].ok

\* ------------------------------------------------ the community snapshot

\* Invocation i is a thunk built on _saveDraft that is awaiting a call.
InFlight(i) ==
  proc[i].pc \in {"awaitSave", "awaitReview", "awaitRead", "awaitPublish",
                  "awaitSubmitReview"}

\* The review calls that _saveDraft makes for a community state, in order.
ReviewCallsFor(cs, links) ==
  IF cs.recordHasInclusionRequest /\ cs.selected = Null
    THEN <<[name |-> "deleteReview", args |-> <<links>>]>>
  ELSE IF cs.selected # Null /\ ~cs.isReviewForSelectedCommunity
    THEN <<[name |-> "createOrUpdateReview",
            args |-> <<links, cs.selected.uuid>>]>>
  ELSE <<>>

\* The review calls among the calls of invocation i, in order.
ReviewCallsOf(log) ==
  SelectSeq(log, LAMBDA call : call.name \in ReviewCalls)

\* C22: the community state a save, publish, submitReview or preview works
\* with is the one of the store at the step that dispatches its START and
\* issues its save call; it stays the same while the invocation is in
\* flight, whatever SET_COMMUNITY does to the store meanwhile; and the step
\* that runs when the save call resolves without errors issues the review
\* call that this state asks for, with the uuid of the community selected in
\* it, or none if it asks for none.
C22_SnapshotDecides ==
  [][\A i \in Inv :
       /\ (proc'[i].pc = "awaitSave" /\ proc[i].pc # "awaitSave") =>
            /\ proc'[i].depositState.community = store.community
            /\ calls'[i] = <<[name |-> "save", args |-> <<proc'[i].draft>>]>>
       /\ (InFlight(i) /\ InFlight(i)') =>
            proc'[i].depositState = proc[i].depositState
       /\ (proc[i].pc = "awaitSave" /\ proc'[i].pc # "awaitSave"
             /\ replies'[i][1].ok
             /\ replies'[i][1].value.errors.keys = {}) =>
            ReviewCallsOf(calls'[i]) =
              ReviewCallsFor(proc[i].depositState.community,
                             replies'[i][1].value.data.links)
       /\ (proc[i].pc = "awaitSave" /\ proc'[i].pc # "awaitSave"
             /\ ~(replies'[i][1].ok /\ replies'[i][1].value.errors.keys = {})) =>
            ReviewCallsOf(calls'[i]) = <<>>
       /\ (InFlight(i) /\ proc[i].pc # "awaitSave") =>
            ReviewCallsOf(calls'[i]) = ReviewCallsOf(calls[i])
    ]_vars

\* The selection was changed while the save call was in flight, and the
\* review call made afterwards carries the community selected at the start.
C22_Witness ==
  \E i \in Inv :
    /\ proc[i].op \in PersistOps
    /\ Len(calls[i]) >= 2
    /\ calls[i][2].name = "createOrUpdateReview"
    /\ store.community.selected # proc[i].depositState.community.selected
    /\ calls[i][2].args[2] = proc[i].depositState.community.selected.uuid

C22_WitnessNoCall ==
  \E i \in Inv :
    /\ proc[i].op = "save"
    /\ proc[i].result = "resolved"
    /\ Len(calls[i]) = 1
    /\ proc[i].depositState.community.selected = Null
    /\ store.community.selected # Null

\* ------------------------------------------------ preview

\* The places in the log of invocation i where window.location was assigned.
Assignments(i) ==
  {k \in DOMAIN navs[i] : navs[i][k].kind = "location.assign"}

\* C23: a preview has assigned window.location exactly when its _saveDraft
\* has returned: not while a call is pending, not after a rejected save, a
\* response with validation errors or a rejected review or read call. The
\* address is /records/{id}?preview=1 with the id of the draft passed to
\* preview, so for a draft passed without id it is built from the missing
\* id although the save response carries the id the backend assigned.
C23_PreviewNavigation ==
  \A i \in Inv :
    proc[i].op = "preview" =>
      /\ HasNavigated(i) <=> proc[i].result = "resolved"
      /\ (\E k \in DOMAIN replies[i] : ~replies[i][k].ok) => ~HasNavigated(i)
      /\ SoftFailure(i) => ~HasNavigated(i)
      /\ \A k \in DOMAIN navs[i] :
           navs[i][k].kind # "history.replaceState" =>
             /\ k = Len(navs[i])
             /\ navs[i][k] =
                  [kind |-> "location.assign",
                   url |-> <<"/records", proc[i].draft.id, "?preview=1">>]
      /\ (HasNavigated(i) /\ proc[i].draft.id = NoId) =>
           /\ SaveResponseOf(i).data.id = CreatedId
           /\ navs[i][Len(navs[i])].url = <<"/records", NoId, "?preview=1">>

\* A draft without id has been previewed: the backend assigned an id, the
\* browser was sent to the address built without it.
C23_Witness ==
  \E i \in Inv :
    /\ proc[i].op = "preview"
    /\ proc[i].draft.id = NoId
    /\ proc[i].result = "resolved"
    /\ Assignments(i) # {}

C23_WitnessReviewRejected ==
  \E i \in Inv :
    /\ proc[i].op = "preview"
    /\ Len(replies[i]) = 2
    /\ ~replies[i][2].ok

\* ------------------------------------------------ terminal failures

\* The places in the log of invocation i of a FAILED event or of
\* DRAFT_HAS_VALIDATION_ERRORS.
TerminalFailures(i) ==
  {k \in DOMAIN events[i] :
     events[i][k].type \in FailedTypes \cup {"DRAFT_HAS_VALIDATION_ERRORS"}}

\* C24: an invocation dispatches at most one terminal failure event, and
\* the event is the last it dispatches, so no SUCCEEDED follows; the
\* invocation has then ended by throwing, and every backend call it issued
\* had settled when the failure was dispatched, the last of them being the
\* one that failed, so no call was issued afterwards. A rejected save inside
\* publish or submitReview gives one FAILED event, not two.
C24_OneTerminalFailure ==
  \A i \in Inv :
    /\ Cardinality(TerminalFailures(i)) <= 1
    /\ \A k \in TerminalFailures(i) :
         /\ k = Len(events[i])
         /\ proc[i].pc = "done"
         /\ proc[i].result = "rejected"
         /\ Len(calls[i]) = Len(replies[i])
         /\ calls[i][Len(calls[i])].name = replies[i][Len(replies[i])].call
         /\ IF events[i][k].type = "DRAFT_HAS_VALIDATION_ERRORS"
              THEN Len(replies[i]) = 1 /\ SoftFailure(i)
              ELSE ~replies[i][Len(replies[i])].ok
    /\ (proc[i].op \in {"publish", "submitReview"}
          /\ Len(replies[i]) >= 1 /\ ~replies[i][1].ok) =>
         /\ Cardinality(TerminalFailures(i)) = 1
         /\ Len(calls[i]) = 1

\* The save call of a submitReview has rejected: one
\* DRAFT_SUBMIT_REVIEW_FAILED, and the review was not submitted.
C24_Witness ==
  \E i \in Inv :
    /\ proc[i].op = "submitReview"
    /\ Len(replies[i]) = 1
    /\ ~replies[i][1].ok
    /\ NumEvents(i, "DRAFT_SUBMIT_REVIEW_FAILED") = 1
    /\ NumCalls(i, "submitReview") = 0

C24_WitnessPublishRejected ==
  \E i \in Inv :
    /\ proc[i].op = "publish"
    /\ replies[i] # <<>>
    /\ replies[i][Len(replies[i])].call = "publish"
    /\ ~replies[i][Len(replies[i])].ok
    /\ TerminalFailures(i) # {}

====
